---- MODULE Spec2Model ----
(***************************************************************************)
(* MagicFolder (src/src/magic_folder.cpp): a FUSE overlay over one flat    *)
(* backing directory.  Files created at the root are hidden until a        *)
(* classifier verdict arrives and then appear under a virtual category     *)
(* directory.  The model covers MagicFolderState (hidden set, category     *)
(* maps, classification FIFO and marker set, the worker thread), the path  *)
(* helpers, and the FUSE handlers create, release, unlink, rename and      *)
(* readdir.  Every critical section of the code (one lock_guard scope) is  *)
(* one atomic step; the steps of a handler interleave with the steps of    *)
(* the other handler threads and of the worker.                            *)
(*                                                                         *)
(* Strings are sequences of one-character strings, positions are 0-based   *)
(* as in std::string.                                                      *)
(***************************************************************************)
EXTENDS Integers, Sequences, FiniteSets, TLC

(***************************************************************************)
(* Bounds of the model.                                                    *)
(***************************************************************************)
\* Number of FUSE handler threads that run concurrently.
NumHandlers == 2
\* No release is dispatched any more once this many requests have been sent.
MaxRpc == 2
\* A classifier response carries at most this many objects.
MaxVerdicts == 2
\* Handles open at a time, in the run that follows the contents of the files.
MaxOpen == 1
\* In that run no release is dispatched any more once this many requests have
\* been sent.
MaxFileRpc == 1
\* Writes are of one byte, at the offsets 0..MaxOffset, of the values 1..MaxByte.
MaxOffset == 1
MaxByte == 1

(***************************************************************************)
(* std::string operations used by the code.                                *)
(***************************************************************************)
npos == -1

SetMin(S) == CHOOSE x \in S : \A y \in S : x <= y
SetMax(S) == CHOOSE x \in S : \A y \in S : y <= x
Min2(a, b) == IF a <= b THEN a ELSE b

\* pat occurs in s at 0-based position i
OccursAt(s, pat, i) ==
    /\ i >= 0
    /\ i + Len(pat) <= Len(s)
    /\ \A k \in 1..Len(pat) : s[i + k] = pat[k]

\* s.find(pat, pos)
Find(s, pat, pos) ==
    LET hits == {i \in pos..(Len(s) - Len(pat)) : OccursAt(s, pat, i)}
    IN  IF hits = {} THEN npos ELSE SetMin(hits)

\* s.rfind(pat, pos): the last occurrence that starts at or before pos
RFind(s, pat, pos) ==
    LET hits == {i \in 0..Min2(pos, Len(s) - Len(pat)) : OccursAt(s, pat, i)}
    IN  IF hits = {} THEN npos ELSE SetMax(hits)

\* s.substr(pos, n), clipped at the end of s
Substr(s, pos, n) ==
    LET m == Min2(n, Len(s) - pos)
    IN  [k \in 1..(IF m > 0 THEN m ELSE 0) |-> s[pos + k]]

\* s.substr(pos)
SubstrFrom(s, pos) == Substr(s, pos, Len(s) - pos)

(***************************************************************************)
(* Names, paths and categories the handlers are called with.               *)
(***************************************************************************)
\* MagicFolderState::backing_store ("<HOME>/.magicFolder/raw", shortened)
backing_store == <<"/", "r">>

FileA   == <<"a">>
FileAB  == <<"a", "b">>
DotUnderscore == <<".", "_", "a">>
DSStore == <<".", "D", "S", "_", "S", "t", "o", "r", "e">>

Filenames == {FileA, FileAB, DotUnderscore, DSStore}

CatD == <<"D">>
CatP == <<"P">>
Categories == {CatD, CatP}

Slash == <<"/">>

\* "/<name>"
RootPath(name) == Slash \o name
\* "/<category>/<name>"
CategoryPath(cat, name) == Slash \o cat \o Slash \o name

\* The runs explored: the virtual paths the kernel passes to create, release,
\* unlink and rename, the number of handler threads that serve them, and
\* whether a further thread serves readdir("/") step by step.
\* Two regular files served by one thread at a time; one file served by
\* NumHandlers concurrent threads; one file served by one thread beside a
\* readdir; the ignored names beside a regular file.
Scenarios ==
    { [paths |-> {RootPath(FileA), RootPath(FileAB), CategoryPath(CatD, FileA)},
       handlers |-> 1, readdir |-> FALSE],
      [paths |-> {RootPath(FileA), CategoryPath(CatD, FileA)},
       handlers |-> NumHandlers, readdir |-> FALSE],
      [paths |-> {RootPath(FileA), CategoryPath(CatD, FileA)},
       handlers |-> 1, readdir |-> TRUE],
      [paths |-> {RootPath(FileA), RootPath(DotUnderscore), RootPath(DSStore)},
       handlers |-> 1, readdir |-> FALSE] }

\* The run in which the contents of the files are followed: one file reached
\* through its root path and through a category path, served by one thread.
FileScenario ==
    [paths |-> {RootPath(FileA), CategoryPath(CatD, FileA)},
     handlers |-> 1, readdir |-> FALSE]

(***************************************************************************)
(* Path helpers.                                                           *)
(***************************************************************************)
\* get_real_path keeping the category directory in the real path
get_real_path_in_category(path) == backing_store \o path

get_real_path(path) ==
    LET second_slash == Find(path, Slash, 1)
    IN  IF second_slash # npos
        THEN backing_store \o Slash \o SubstrFrom(path, second_slash + 1)
        ELSE backing_store \o path

is_root_file(path) ==
    IF path = Slash THEN FALSE ELSE Find(path, Slash, 1) = npos

get_filename(path) ==
    LET pos == RFind(path, Slash, Len(path))
    IN  IF pos # npos THEN SubstrFrom(path, pos + 1) ELSE path

\* is_ignored_file without the "._" prefix rule
is_ignored_file_ds_store_only(filename) == filename = DSStore

is_ignored_file(filename) ==
    \/ filename = DSStore
    \/ (Len(filename) >= 2 /\ Substr(filename, 0, 2) = <<".", "_">>)

\* <backing_store>/<filename>, as built at lines 208, 230 and 543
full_path_of(filename) == backing_store \o Slash \o filename

(***************************************************************************)
(* The classifier request and the parse of its response                    *)
(* (MagicFolderState::classify_files_batch).                               *)
(***************************************************************************)
Quote == <<"\"">>
Comma == <<",", " ">>

\* "{\"files\": ["
RequestOpen ==
    <<"{">> \o Quote \o <<"f", "i", "l", "e", "s">> \o Quote \o <<":", " ", "[">>
\* "]}"
RequestClose == <<"]", "}">>

\* the loop of lines 207-213 from index i (1-based here) on
RECURSIVE RequestItems(_, _)
RequestItems(filenames, i) ==
    IF i > Len(filenames) THEN <<>>
    ELSE Quote \o full_path_of(filenames[i]) \o Quote
         \o (IF i < Len(filenames) THEN Comma ELSE <<>>)
         \o RequestItems(filenames, i + 1)

BuildRequest(filenames) == RequestOpen \o RequestItems(filenames, 1) \o RequestClose

\* "\"category\": \""
CategoryKey ==
    Quote \o <<"c", "a", "t", "e", "g", "o", "r", "y">> \o Quote \o <<":", " ">> \o Quote
\* the offset added to c_pos
CategoryKeyLen == 13

\* Lines 230-251 for one filename of the batch: <<category>> when the response
\* yields a category for it, <<>> when it does not.
ParseVerdict(response, filename) ==
    LET full_path == full_path_of(filename)
        p_pos == Find(response, full_path, 0)
    IN  IF p_pos = npos THEN <<>>
        ELSE LET obj_start == RFind(response, <<"{">>, p_pos)
                 obj_end   == Find(response, <<"}">>, p_pos)
             IN  IF obj_start = npos \/ obj_end = npos THEN <<>>
                 ELSE LET obj_str == Substr(response, obj_start, obj_end - obj_start)
                          c_pos   == Find(obj_str, CategoryKey, 0)
                      IN  IF c_pos = npos THEN <<>>
                          ELSE LET c_start == c_pos + CategoryKeyLen
                                   c_end   == Find(obj_str, Quote, c_start)
                               IN  IF c_end = npos THEN <<>>
                                   ELSE <<Substr(obj_str, c_start, c_end - c_start)>>

(***************************************************************************)
(* The classifier is an external process.  Its responses are drawn from    *)
(* the documents of at most MaxVerdicts objects                            *)
(*     [{"path": "<abs path>", "category": "<name>"}, ...]                 *)
(* over the paths of the regular files and the categories, an object may   *)
(* also lack its category field (NoCategory).                              *)
(***************************************************************************)
NoCategory == <<>>

VerdictObjects ==
    [path : {full_path_of(FileA), full_path_of(FileAB)},
     category : Categories \cup {NoCategory}]

VerdictLists == UNION {[1..n -> VerdictObjects] : n \in 0..MaxVerdicts}

ReplyObject(v) ==
    <<"{">> \o Quote \o <<"p", "a", "t", "h">> \o Quote \o <<":", " ">>
    \o Quote \o v.path \o Quote
    \o (IF v.category = NoCategory THEN <<>>
        ELSE Comma \o CategoryKey \o v.category \o Quote)
    \o <<"}">>

RECURSIVE ReplyItems(_, _)
ReplyItems(vs, i) ==
    IF i > Len(vs) THEN <<>>
    ELSE ReplyObject(vs[i]) \o (IF i < Len(vs) THEN Comma ELSE <<>>)
         \o ReplyItems(vs, i + 1)

ClassifierReply(vs) == <<"[">> \o ReplyItems(vs, 1) \o <<"]">>

\* The parse of every response for every filename, computed once.
ParseTable ==
    {<<vs, f, ParseVerdict(ClassifierReply(vs), f)>> : vs \in VerdictLists, f \in Filenames}

ParsedCategory(vs, f) == (CHOOSE t \in ParseTable : t[1] = vs /\ t[2] = f)[3]

\* Lines 229-253: the (filename, category) pairs update_category is called
\* with, in batch order, from index i on.
RECURSIVE BatchVerdicts(_, _, _)
BatchVerdicts(vs, filenames, i) ==
    IF i > Len(filenames) THEN <<>>
    ELSE LET c == ParsedCategory(vs, filenames[i])
         IN  (IF c = <<>> THEN <<>> ELSE << <<filenames[i], c[1]>> >>)
             \o BatchVerdicts(vs, filenames, i + 1)

Range(s) == {s[i] : i \in DOMAIN s}

(***************************************************************************)
(* State.                                                                  *)
(***************************************************************************)
VARIABLES
    backing,            \* the real paths of the files in the backing directory
    hidden_files,       \* MagicFolderState::hidden_files
    categories,         \* MagicFolderState::categories: category -> list of filenames
    file_category_map,  \* MagicFolderState::file_category_map: filename -> category
    processing_queue,   \* MagicFolderState::processing_queue (the FIFO)
    queued_files,       \* MagicFolderState::queued_files (the in-queue markers)
    running,            \* MagicFolderState::running
    wpc,                \* where the worker thread is in worker_loop
    batch,              \* worker_loop's local batch
    request,            \* classify_files_batch's request, once sent
    verdicts,           \* the update_category calls the worker has still to make
    rpcCount,           \* the number of requests sent so far
    emitted,            \* per filename: requests carrying it since its marker was set
    stopRpcs,           \* the number of requests that returned after running was cleared
    hpc,                \* per handler thread: where it is in its handler
    hpath,              \* per handler thread: the path its handler was called with
    paths,              \* the virtual paths of this run (never changes)
    state_mutex,        \* MagicFolderState::state_mutex: the thread that owns it
    queue_mutex,        \* MagicFolderState::queue_mutex: the thread that owns it
    dpc,                \* where the thread serving readdir("/") is in magic_readdir
    dcats,              \* magic_readdir: the category names passed to filler
    dtodo,              \* magic_readdir: the entries of the directory stream still to come
    dname,              \* magic_readdir: de->d_name between is_hidden and the map test
    dlisted,            \* magic_readdir: the file names passed to filler
    io,                 \* whether the run follows file contents, handles and return values
    inode,              \* the backing directory: real path -> the file it names
    content,            \* per file of the backing store: its bytes
    fh,                 \* fi->fh of the open handles: virtual path opened -> file
    rename_ret          \* the flags and the return value of the last magic_rename

vars == <<backing, hidden_files, categories, file_category_map, processing_queue,
          queued_files, running, wpc, batch, request, verdicts, rpcCount, emitted,
          stopRpcs, hpc, hpath, paths, state_mutex, queue_mutex,
          dpc, dcats, dtodo, dname, dlisted, io, inode, content, fh, rename_ret>>

visibility == <<hidden_files, categories, file_category_map>>
queueVars  == <<processing_queue, queued_files>>
workerVars == <<wpc, batch, request, verdicts, rpcCount, emitted, stopRpcs>>
handlerVars == <<hpc, hpath, paths>>
mutexes == <<state_mutex, queue_mutex>>
readdirVars == <<dpc, dcats, dtodo, dname, dlisted>>
fileVars == <<io, inode, content, fh, rename_ret>>

\* the owner of a mutex nobody has locked
NoThread == -1

Handlers == DOMAIN hpc
NoPath == <<>>
\* magic_rename has not been called
NoCall == <<>>

Start(sc, follow) ==
    /\ backing = {}
    /\ hidden_files = {}
    /\ categories = <<>>
    /\ file_category_map = <<>>
    /\ processing_queue = <<>>
    /\ queued_files = {}
    /\ running = TRUE
    /\ wpc = "loop"
    /\ batch = <<>>
    /\ request = <<>>
    /\ verdicts = <<>>
    /\ rpcCount = 0
    /\ emitted = [f \in Filenames |-> 0]
    /\ stopRpcs = 0
    /\ state_mutex = NoThread
    /\ queue_mutex = NoThread
    /\ dcats = {}
    /\ dtodo = {}
    /\ dname = NoPath
    /\ dlisted = {}
    /\ paths = sc.paths
    /\ hpc = [h \in 1..sc.handlers |-> "idle"]
    /\ hpath = [h \in 1..sc.handlers |-> NoPath]
    /\ dpc = IF sc.readdir THEN "idle" ELSE "off"
    /\ io = follow
    /\ inode = <<>>
    /\ content = <<>>
    /\ fh = <<>>
    /\ rename_ret = NoCall

Init == \E sc \in Scenarios : Start(sc, FALSE)

(***************************************************************************)
(* MagicFolderState: visibility state.                                     *)
(* unclassified_queue is only ever appended to (add_to_queue) and never    *)
(* read by a handler or by the worker; it is left out of the state.        *)
(***************************************************************************)
\* add_to_queue: the ignore check, then hidden_files.insert under state_mutex
add_to_queue(filename) ==
    hidden_files' = IF is_ignored_file(filename)
                    THEN hidden_files
                    ELSE hidden_files \cup {filename}

is_hidden(filename) == filename \in hidden_files

\* categories[category].push_back(filename)
push_back_category(cats, category, filename) ==
    [c \in DOMAIN cats \cup {category} |->
        IF c = category
        THEN Append(IF c \in DOMAIN cats THEN cats[c] ELSE <<>>, filename)
        ELSE cats[c]]

\* update_category without the file_category_map assignment
update_category_no_map(filename, category) ==
    /\ hidden_files' = hidden_files \ {filename}
    /\ categories' = push_back_category(categories, category, filename)
    /\ UNCHANGED file_category_map

update_category(filename, category) ==
    /\ hidden_files' = hidden_files \ {filename}
    /\ categories' = push_back_category(categories, category, filename)
    /\ file_category_map' =
         [f \in DOMAIN file_category_map \cup {filename} |->
             IF f = filename THEN category ELSE file_category_map[f]]

\* a notification that wakes nobody
notify_lost(w) == w

\* queue_cv.notify_one / notify_all, as it acts on the worker (the only thread
\* that ever waits on queue_cv): a waiter is woken, any other position of the
\* worker is left as it is and the notification is gone
notify(w) == IF w = "blocked" THEN "wait" ELSE w

(***************************************************************************)
(* FUSE handlers.  A handler thread h is idle or inside create or release; *)
(* unlink and rename are one system call each.  The kernel dispatches      *)
(* requests until destroy, which is where shutdown() is called.            *)
(***************************************************************************)
\* pwrite(fd, buf, 1, offset): the bytes of the file afterwards; the hole left
\* before an offset beyond the end reads as zero
pwrite(bytes, offset, byte) ==
    IF offset < Len(bytes)
    THEN [bytes EXCEPT ![offset + 1] = byte]
    ELSE bytes \o [i \in 1..(offset - Len(bytes)) |-> 0] \o <<byte>>

\* pread(fd, buf, 1, offset): the bytes returned, none at or beyond the end
pread(bytes, offset) == IF offset < Len(bytes) THEN <<bytes[offset + 1]>> ELSE <<>>

\* open() creating a file: the file the backing store makes for it
NewFile == CHOOSE n \in 1..(Cardinality(DOMAIN content) + 1) : n \notin DOMAIN content

\* the backing store keeps a file while a name or an open handle refers to it
Keep(bytes, dir, handles) == [f \in Range(dir) \cup Range(handles) |-> bytes[f]]

Without(fn, x) == [y \in DOMAIN fn \ {x} |-> fn[y]]

\* magic_create up to the open(): the file exists in the backing store
magic_create(h, path) ==
    /\ running
    /\ hpc[h] = "idle"
    /\ Cardinality(DOMAIN fh) < MaxOpen
    /\ backing' = backing \cup {get_real_path(path)}
    /\ IF io
       THEN LET real_path == get_real_path(path)
                fd == IF real_path \in backing THEN inode[real_path] ELSE NewFile
            IN  /\ inode' = (real_path :> fd) @@ inode
                /\ content' = IF real_path \in backing THEN content
                                                        ELSE (fd :> <<>>) @@ content
                /\ fh' = (path :> fd) @@ fh
       ELSE UNCHANGED <<inode, content, fh>>
    /\ IF is_root_file(path) /\ ~is_ignored_file(get_filename(path))
       THEN /\ hpc' = [hpc EXCEPT ![h] = "create_add"]
            /\ hpath' = [hpath EXCEPT ![h] = path]
            /\ UNCHANGED paths
       ELSE UNCHANGED handlerVars
    /\ UNCHANGED <<visibility, queueVars, running, workerVars>>
    /\ UNCHANGED <<mutexes, readdirVars, io, rename_ret>>

\* magic_create: the add_to_queue call, then return
magic_create_add(h) ==
    /\ hpc[h] = "create_add"
    /\ add_to_queue(get_filename(hpath[h]))
    /\ hpc' = [hpc EXCEPT ![h] = "idle"]
    /\ hpath' = [hpath EXCEPT ![h] = NoPath]
    /\ UNCHANGED paths
    /\ UNCHANGED <<backing, categories, file_category_map, queueVars, running, workerVars>>
    /\ UNCHANGED <<mutexes, readdirVars, fileVars>>

\* magic_release going on to the enqueue without is_hidden() and add_to_queue
magic_release_never_adds(h, path) ==
    /\ running
    /\ rpcCount < MaxRpc
    /\ hpc[h] = "idle"
    /\ get_real_path(path) \in backing
    /\ IF is_root_file(path) /\ ~is_ignored_file(get_filename(path))
       THEN /\ hpc' = [hpc EXCEPT ![h] = "enqueue_check"]
            /\ hpath' = [hpath EXCEPT ![h] = path]
            /\ UNCHANGED paths
       ELSE UNCHANGED handlerVars
    /\ UNCHANGED <<backing, visibility, queueVars, running, workerVars>>
    /\ UNCHANGED <<mutexes, readdirVars, fileVars>>

\* magic_release up to the is_hidden() call; a path that is no root file, or an
\* ignored name, only closes the handle.  The handle comes from an open or a
\* create of the path, so the file has existed; the steps below do not read the
\* backing store, so an unlink before the release and one during it lead to the
\* same states, and the release is taken while the file exists.  Where handles
\* are followed the release is that of an open handle; the kernel sends it
\* when no read or write uses the handle any more, so the close() that ends
\* the callback is taken with its first step.
magic_release(h, path) ==
    /\ running
    /\ rpcCount < (IF io THEN MaxFileRpc ELSE MaxRpc)
    /\ hpc[h] = "idle"
    /\ IF io THEN path \in DOMAIN fh ELSE get_real_path(path) \in backing
    /\ fh' = Without(fh, path)
    /\ content' = IF io THEN Keep(content, inode, fh') ELSE content
    /\ IF is_root_file(path) /\ ~is_ignored_file(get_filename(path))
       THEN /\ hpc' = [hpc EXCEPT ![h] =
                         IF is_hidden(get_filename(path))
                         THEN "enqueue_check" ELSE "release_add"]
            /\ hpath' = [hpath EXCEPT ![h] = path]
            /\ UNCHANGED paths
       ELSE UNCHANGED handlerVars
    /\ UNCHANGED <<backing, visibility, queueVars, running, workerVars>>
    /\ UNCHANGED <<mutexes, readdirVars, io, inode, rename_ret>>

\* magic_release going on to the enqueue without the add_to_queue call
magic_release_add_skipped(h) ==
    /\ hpc[h] = "release_add"
    /\ hpc' = [hpc EXCEPT ![h] = "enqueue_check"]
    /\ UNCHANGED <<backing, visibility, queueVars, running, workerVars, hpath, paths>>
    /\ UNCHANGED <<mutexes, readdirVars, fileVars>>

\* magic_release: the add_to_queue call made when is_hidden() was false
magic_release_add(h) ==
    /\ hpc[h] = "release_add"
    /\ add_to_queue(get_filename(hpath[h]))
    /\ hpc' = [hpc EXCEPT ![h] = "enqueue_check"]
    /\ UNCHANGED <<backing, categories, file_category_map, queueVars, running,
                   workerVars, hpath, paths>>
    /\ UNCHANGED <<mutexes, readdirVars, fileVars>>

\* enqueue_for_classification: the ignore check and the already-classified
\* check under state_mutex; a return here ends magic_release
enqueue_check_classified(h) ==
    /\ hpc[h] = "enqueue_check"
    /\ LET filename == get_filename(hpath[h])
       IN  IF is_ignored_file(filename) \/ filename \in DOMAIN file_category_map
           THEN /\ hpc' = [hpc EXCEPT ![h] = "idle"]
                /\ hpath' = [hpath EXCEPT ![h] = NoPath]
           ELSE /\ hpc' = [hpc EXCEPT ![h] = "enqueue_push"]
                /\ UNCHANGED hpath
    /\ UNCHANGED <<paths, backing, visibility, queueVars, running, workerVars>>
    /\ UNCHANGED <<mutexes, readdirVars, fileVars>>

\* enqueue_for_classification pushing without the already-queued check
enqueue_push_unchecked(h) ==
    /\ hpc[h] = "enqueue_push"
    /\ wpc # "park"
    /\ LET filename == get_filename(hpath[h])
       IN  /\ processing_queue' = Append(processing_queue, filename)
           /\ queued_files' = queued_files \cup {filename}
           /\ emitted' = [emitted EXCEPT ![filename] = 0]
           /\ wpc' = notify(wpc)
    /\ hpc' = [hpc EXCEPT ![h] = "idle"]
    /\ hpath' = [hpath EXCEPT ![h] = NoPath]
    /\ UNCHANGED <<backing, visibility, running, batch, request, verdicts, rpcCount,
                   paths, stopRpcs>>
    /\ UNCHANGED <<mutexes, readdirVars, fileVars>>

\* enqueue_for_classification: the already-queued check and the push, under
\* queue_mutex (which the worker holds between its wait predicate and its
\* wait); after a push, notify_one; then magic_release closes the handle
enqueue_push(h) ==
    /\ hpc[h] = "enqueue_push"
    /\ wpc # "park"
    /\ LET filename == get_filename(hpath[h])
       IN  IF filename \in queued_files
           THEN UNCHANGED <<queueVars, emitted, wpc>>
           ELSE /\ processing_queue' = Append(processing_queue, filename)
                /\ queued_files' = queued_files \cup {filename}
                /\ emitted' = [emitted EXCEPT ![filename] = 0]
                /\ wpc' = notify(wpc)
    /\ hpc' = [hpc EXCEPT ![h] = "idle"]
    /\ hpath' = [hpath EXCEPT ![h] = NoPath]
    /\ UNCHANGED <<backing, visibility, running, batch, request, verdicts, rpcCount,
                   paths, stopRpcs>>
    /\ UNCHANGED <<mutexes, readdirVars, fileVars>>

\* magic_unlink: unlink() of the real path; -errno when it does not exist
magic_unlink(path) ==
    /\ running
    /\ get_real_path(path) \in backing
    /\ backing' = backing \ {get_real_path(path)}
    /\ inode' = IF io THEN Without(inode, get_real_path(path)) ELSE inode
    /\ content' = IF io THEN Keep(content, inode', fh) ELSE content
    /\ UNCHANGED <<visibility, queueVars, running, workerVars, handlerVars>>
    /\ UNCHANGED <<mutexes, readdirVars, io, fh, rename_ret>>

\* magic_rename without the test of the flags
magic_rename_ignoring_flags(from, to, flags) ==
    /\ running
    /\ get_real_path(from) \in backing
    /\ backing' = (backing \ {get_real_path(from)}) \cup {get_real_path(to)}
    /\ inode' = IF io
                THEN (get_real_path(to) :> inode[get_real_path(from)])
                         @@ Without(inode, get_real_path(from))
                ELSE inode
    /\ content' = IF io THEN Keep(content, inode', fh) ELSE content
    /\ rename_ret' = IF io THEN [flags |-> flags, ret |-> "0"] ELSE rename_ret
    /\ UNCHANGED <<visibility, queueVars, running, workerVars, handlerVars>>
    /\ UNCHANGED <<mutexes, readdirVars, io, fh>>

\* magic_rename: -EINVAL with flags, else rename() of the real paths
magic_rename(from, to, flags) ==
    /\ running
    /\ IF flags # 0
       THEN /\ rename_ret' = IF io THEN [flags |-> flags, ret |-> "-EINVAL"] ELSE rename_ret
            /\ UNCHANGED <<backing, inode, content>>
       ELSE /\ get_real_path(from) \in backing
            /\ backing' = (backing \ {get_real_path(from)}) \cup {get_real_path(to)}
            /\ inode' = IF io
                        THEN (get_real_path(to) :> inode[get_real_path(from)])
                                 @@ Without(inode, get_real_path(from))
                        ELSE inode
            /\ content' = IF io THEN Keep(content, inode', fh) ELSE content
            /\ rename_ret' = IF io THEN [flags |-> flags, ret |-> "0"] ELSE rename_ret
    /\ UNCHANGED <<visibility, queueVars, running, workerVars, handlerVars>>
    /\ UNCHANGED <<mutexes, readdirVars, io, fh>>

\* magic_open: open() of the real path, the descriptor kept in fi->fh
magic_open(path) ==
    /\ running
    /\ io
    /\ Cardinality(DOMAIN fh) < MaxOpen
    /\ get_real_path(path) \in backing
    /\ fh' = (path :> inode[get_real_path(path)]) @@ fh
    /\ UNCHANGED <<backing, visibility, queueVars, running, workerVars, handlerVars>>
    /\ UNCHANGED <<mutexes, readdirVars, io, inode, content, rename_ret>>

\* magic_write of one byte: through fi->fh, or, when the kernel passes no fi,
\* through a descriptor opened on the real path
magic_write(path, offset, byte, with_fi) ==
    /\ running
    /\ io
    /\ IF with_fi THEN path \in DOMAIN fh ELSE get_real_path(path) \in backing
    /\ LET fd == IF with_fi THEN fh[path] ELSE inode[get_real_path(path)]
       IN  content' = [content EXCEPT ![fd] = pwrite(@, offset, byte)]
    /\ UNCHANGED <<backing, visibility, queueVars, running, workerVars, handlerVars>>
    /\ UNCHANGED <<mutexes, readdirVars, io, inode, fh, rename_ret>>

\* magic_read of one byte: the bytes returned, or the error of the open()
magic_read(path, offset, with_fi) ==
    IF with_fi
    THEN pread(content[fh[path]], offset)
    ELSE LET real_path == get_real_path(path)
         IN  IF real_path \in backing
             THEN pread(content[inode[real_path]], offset)
             ELSE "-ENOENT"

(***************************************************************************)
(* The worker thread (MagicFolderState::worker_loop).                      *)
(***************************************************************************)
\* worker_loop never testing running: "while (true)"
worker_loop_test_ignoring_running ==
    /\ wpc = "loop"
    /\ wpc' = "wait"
    /\ UNCHANGED <<backing, visibility, queueVars, running, batch, request, verdicts,
                   rpcCount, emitted, handlerVars, stopRpcs>>
    /\ UNCHANGED <<mutexes, readdirVars, fileVars>>

\* while (running)
worker_loop_test ==
    /\ wpc = "loop"
    /\ wpc' = IF running THEN "wait" ELSE "done"
    /\ UNCHANGED <<backing, visibility, queueVars, running, batch, request, verdicts,
                   rpcCount, emitted, handlerVars, stopRpcs>>
    /\ UNCHANGED <<mutexes, readdirVars, fileVars>>

\* queue_cv.wait(lock, pred) is "while (!pred()) wait(lock)".  Here queue_mutex
\* is taken and pred evaluated: when it is false the worker goes on to
\* wait(lock), still holding the mutex; when it is true, the first shutdown
\* test follows and the lock is released for the debounce sleep.
worker_wait ==
    /\ wpc = "wait"
    /\ wpc' = IF processing_queue # <<>> \/ ~running
              THEN (IF ~running /\ processing_queue = <<>> THEN "done" ELSE "sleep")
              ELSE "park"
    /\ UNCHANGED <<backing, visibility, queueVars, running, batch, request, verdicts,
                   rpcCount, emitted, handlerVars, stopRpcs>>
    /\ UNCHANGED <<mutexes, readdirVars, fileVars>>

\* condition_variable::wait(lock): queue_mutex is released and the worker
\* joins the waiters of queue_cv, in one atomic step
worker_block ==
    /\ wpc = "park"
    /\ wpc' = "blocked"
    /\ UNCHANGED <<backing, visibility, queueVars, running, batch, request, verdicts,
                   rpcCount, emitted, handlerVars, stopRpcs>>
    /\ UNCHANGED <<mutexes, readdirVars, fileVars>>

\* a waiter may wake without a notification; it takes the mutex again and
\* evaluates pred again
worker_spurious_wakeup ==
    /\ wpc = "blocked"
    /\ wpc' = "wait"
    /\ UNCHANGED <<backing, visibility, queueVars, running, batch, request, verdicts,
                   rpcCount, emitted, handlerVars, stopRpcs>>
    /\ UNCHANGED <<mutexes, readdirVars, fileVars>>

\* the drain erasing the markers of the names it dequeues, instead of keeping
\* them until the batch has been processed
worker_drain_clearing_markers ==
    /\ wpc = "sleep"
    /\ IF ~running /\ processing_queue = <<>>
       THEN /\ wpc' = "done"
            /\ UNCHANGED <<processing_queue, batch, queued_files>>
       ELSE /\ batch' = batch \o processing_queue
            /\ processing_queue' = <<>>
            /\ queued_files' = queued_files \ Range(processing_queue)
            /\ wpc' = IF batch' # <<>> THEN "send" ELSE "loop"
    /\ UNCHANGED <<backing, visibility, running, request, verdicts,
                   rpcCount, emitted, handlerVars, stopRpcs>>
    /\ UNCHANGED <<mutexes, readdirVars, fileVars>>

\* the drain dequeuing the front item only
worker_drain_front_only ==
    /\ wpc = "sleep"
    /\ IF ~running /\ processing_queue = <<>>
       THEN /\ wpc' = "done"
            /\ UNCHANGED <<processing_queue, batch>>
       ELSE /\ batch' = Append(batch, Head(processing_queue))
            /\ processing_queue' = Tail(processing_queue)
            /\ wpc' = "send"
    /\ UNCHANGED <<backing, visibility, queued_files, running, request, verdicts,
                   rpcCount, emitted, handlerVars, stopRpcs>>
    /\ UNCHANGED <<mutexes, readdirVars, fileVars>>

\* after the sleep, under queue_mutex: the second shutdown test, then the
\* whole FIFO is moved into the batch
worker_drain ==
    /\ wpc = "sleep"
    /\ IF ~running /\ processing_queue = <<>>
       THEN /\ wpc' = "done"
            /\ UNCHANGED <<processing_queue, batch>>
       ELSE /\ batch' = batch \o processing_queue
            /\ processing_queue' = <<>>
            /\ wpc' = IF batch' # <<>> THEN "send" ELSE "loop"
    /\ UNCHANGED <<backing, visibility, queued_files, running, request, verdicts,
                   rpcCount, emitted, handlerVars, stopRpcs>>
    /\ UNCHANGED <<mutexes, readdirVars, fileVars>>

\* classify_files_batch: the request is built and sent
worker_send ==
    /\ wpc = "send"
    /\ request' = BuildRequest(batch)
    /\ rpcCount' = rpcCount + 1
    /\ emitted' = [f \in Filenames |->
                     IF f \in Range(batch) THEN emitted[f] + 1 ELSE emitted[f]]
    /\ wpc' = "recv"
    /\ UNCHANGED <<backing, visibility, queueVars, running, batch, verdicts, handlerVars,
                   stopRpcs>>
    /\ UNCHANGED <<mutexes, readdirVars, fileVars>>

\* classify_files_batch: zmq_recv fails or times out (bytes <= 0), or returns
\* a response, which is parsed for each filename of the batch
worker_recv ==
    /\ wpc = "recv"
    /\ \/ verdicts' = <<>>
       \/ \E vs \in VerdictLists : verdicts' = BatchVerdicts(vs, batch, 1)
    /\ wpc' = IF verdicts' = <<>> THEN "erase" ELSE "apply"
    /\ stopRpcs' = IF running THEN stopRpcs ELSE stopRpcs + 1
    /\ UNCHANGED <<backing, visibility, queueVars, running, batch, request, rpcCount,
                   emitted, handlerVars>>
    /\ UNCHANGED <<mutexes, readdirVars, fileVars>>

\* classify_files_batch: the next update_category call
worker_apply ==
    /\ wpc = "apply"
    /\ update_category(Head(verdicts)[1], Head(verdicts)[2])
    /\ verdicts' = Tail(verdicts)
    /\ wpc' = IF verdicts' = <<>> THEN "erase" ELSE "apply"
    /\ UNCHANGED <<backing, queueVars, running, batch, request, rpcCount, emitted,
                   handlerVars, stopRpcs>>
    /\ UNCHANGED <<mutexes, readdirVars, fileVars>>

\* the batch going out of scope with its markers left in queued_files
worker_erase_keeping_markers ==
    /\ wpc = "erase"
    /\ batch' = <<>>
    /\ request' = <<>>
    /\ emitted' = [f \in Filenames |-> IF f \in Range(batch) THEN 0 ELSE emitted[f]]
    /\ wpc' = "loop"
    /\ UNCHANGED <<backing, visibility, processing_queue, queued_files, running,
                   verdicts, rpcCount, handlerVars, stopRpcs>>
    /\ UNCHANGED <<mutexes, readdirVars, fileVars>>

\* the markers of the batch are erased under queue_mutex; the batch goes out
\* of scope
worker_erase ==
    /\ wpc = "erase"
    /\ queued_files' = queued_files \ Range(batch)
    /\ batch' = <<>>
    /\ request' = <<>>
    /\ emitted' = [f \in Filenames |-> IF f \in Range(batch) THEN 0 ELSE emitted[f]]
    /\ wpc' = "loop"
    /\ UNCHANGED <<backing, visibility, processing_queue, running, verdicts, rpcCount,
                   handlerVars, stopRpcs>>
    /\ UNCHANGED <<mutexes, readdirVars, fileVars>>

(***************************************************************************)
(* magic_readdir("/"), step by step: one step for each critical section    *)
(* and for the opendir.  The directory stream returns the entries that     *)
(* exist when it is opened.                                                *)
(***************************************************************************)
\* the d_name of every entry of the backing directory
DirEntries == {get_filename(p) : p \in backing}

\* part 1: the keys of categories are passed to filler under state_mutex
magic_readdir_categories ==
    /\ running
    /\ dpc = "idle"
    /\ dcats' = DOMAIN categories
    /\ dpc' = "opendir"
    /\ UNCHANGED <<dtodo, dname, dlisted>>
    /\ UNCHANGED <<backing, visibility, queueVars, running, workerVars, handlerVars, mutexes>>
    /\ UNCHANGED fileVars

\* part 2: opendir of the backing directory
magic_readdir_opendir ==
    /\ dpc = "opendir"
    /\ dtodo' = DirEntries
    /\ dpc' = "entry"
    /\ UNCHANGED <<dcats, dname, dlisted>>
    /\ UNCHANGED <<backing, visibility, queueVars, running, workerVars, handlerVars, mutexes>>
    /\ UNCHANGED fileVars

\* part 2: readdir() returns an entry and is_hidden() is called on its name
magic_readdir_is_hidden ==
    /\ dpc = "entry"
    /\ \E d_name \in dtodo :
          /\ dtodo' = dtodo \ {d_name}
          /\ IF is_hidden(d_name)
             THEN UNCHANGED <<dpc, dname>>
             ELSE dpc' = "map_test" /\ dname' = d_name
    /\ UNCHANGED <<dcats, dlisted>>
    /\ UNCHANGED <<backing, visibility, queueVars, running, workerVars, handlerVars, mutexes>>
    /\ UNCHANGED fileVars

\* part 2: the file_category_map test under state_mutex, then filler
magic_readdir_map_test ==
    /\ dpc = "map_test"
    /\ dlisted' = IF dname \in DOMAIN file_category_map
                  THEN dlisted
                  ELSE dlisted \cup {dname}
    /\ dname' = NoPath
    /\ dpc' = "entry"
    /\ UNCHANGED <<dcats, dtodo>>
    /\ UNCHANGED <<backing, visibility, queueVars, running, workerVars, handlerVars, mutexes>>
    /\ UNCHANGED fileVars

\* readdir() returns no further entry: closedir, return 0
magic_readdir_return ==
    /\ dpc = "entry"
    /\ dtodo = {}
    /\ dpc' = "idle"
    /\ dcats' = {}
    /\ dlisted' = {}
    /\ UNCHANGED <<dtodo, dname>>
    /\ UNCHANGED <<backing, visibility, queueVars, running, workerVars, handlerVars, mutexes>>
    /\ UNCHANGED fileVars

\* MagicFolderState::shutdown: running = false, stored without queue_mutex,
\* then notify_all; the join that follows returns when the worker is done
shutdown ==
    /\ running
    /\ running' = FALSE
    /\ wpc' = notify(wpc)
    /\ UNCHANGED <<backing, visibility, queueVars, batch, request, verdicts, rpcCount,
                   emitted, handlerVars, stopRpcs>>
    /\ UNCHANGED <<mutexes, readdirVars, fileVars>>

Next ==
    \/ \E h \in Handlers, path \in paths : magic_create(h, path)
    \/ \E h \in Handlers : magic_create_add(h)
    \/ \E h \in Handlers, path \in paths : magic_release(h, path)
    \/ \E h \in Handlers : magic_release_add(h)
    \/ \E h \in Handlers : enqueue_check_classified(h)
    \/ \E h \in Handlers : enqueue_push(h)
    \/ \E path \in paths : magic_unlink(path)
    \/ \E from \in paths, to \in paths, flags \in {0, 1} :
          magic_rename(from, to, flags)
    \/ magic_readdir_categories
    \/ magic_readdir_opendir
    \/ magic_readdir_is_hidden
    \/ magic_readdir_map_test
    \/ magic_readdir_return
    \/ worker_loop_test
    \/ worker_wait
    \/ worker_block
    \/ worker_spurious_wakeup
    \/ worker_drain
    \/ worker_send
    \/ worker_recv
    \/ worker_apply
    \/ worker_erase
    \/ shutdown

Spec == Init /\ [][Next]_vars

\* The steps of the worker thread that the scheduler and the classifier owe it:
\* a runnable thread runs, and an outstanding request returns (with a response
\* or with a failure).  A wake-up without a notification is owed to nobody.
WorkerStep ==
    \/ worker_loop_test
    \/ worker_wait
    \/ worker_block
    \/ worker_drain
    \/ worker_send
    \/ worker_recv
    \/ worker_apply
    \/ worker_erase

\* The steps that finish a callback a handler thread is in the middle of: the
\* scheduler owes them too.  The arrival of a new callback is owed to nobody.
HandlerStep ==
    \/ \E h \in Handlers : magic_create_add(h)
    \/ \E h \in Handlers : magic_release_add(h)
    \/ \E h \in Handlers : enqueue_check_classified(h)
    \/ \E h \in Handlers : enqueue_push(h)
    \/ magic_readdir_opendir
    \/ magic_readdir_is_hidden
    \/ magic_readdir_map_test
    \/ magic_readdir_return

\* One file served by one handler thread beside a readdir, under a fair scheduler.
LiveInit == Init /\ dpc = "idle"

LiveSpec == LiveInit /\ [][Next]_vars /\ WF_vars(WorkerStep) /\ WF_vars(HandlerStep)

\* The run that follows the contents of the files: the callbacks on files and
\* the worker, beside open and write.
FileInit == Start(FileScenario, TRUE)

\* the paths passed to rename in that run: a file can be moved to a second name
\* and back
RenamePaths == paths \cup {CategoryPath(CatD, FileAB)}

FileNext ==
    \/ \E h \in Handlers, path \in paths : magic_create(h, path)
    \/ \E h \in Handlers : magic_create_add(h)
    \/ \E path \in paths : magic_open(path)
    \/ \E path \in paths, offset \in 0..MaxOffset, byte \in 1..MaxByte, with_fi \in BOOLEAN :
          magic_write(path, offset, byte, with_fi)
    \/ \E h \in Handlers, path \in paths : magic_release(h, path)
    \/ \E h \in Handlers : magic_release_add(h)
    \/ \E h \in Handlers : enqueue_check_classified(h)
    \/ \E h \in Handlers : enqueue_push(h)
    \/ \E path \in paths : magic_unlink(path)
    \/ \E from \in RenamePaths, to \in RenamePaths, flags \in {0, 1} :
          magic_rename(from, to, flags)
    \/ worker_loop_test
    \/ worker_wait
    \/ worker_block
    \/ worker_spurious_wakeup
    \/ worker_drain
    \/ worker_send
    \/ worker_recv
    \/ worker_apply
    \/ worker_erase
    \/ shutdown

FileSpec == FileInit /\ [][FileNext]_vars

(***************************************************************************)
(* The two mutexes.  In the steps above every critical section is one      *)
(* atomic step, so that both mutexes are free between steps.  Below, the   *)
(* same code is followed lock by lock: each thread walks through the       *)
(* lock_guard scopes of its code, the outcome of every test on the data    *)
(* is left open, and the data is left as it is.                            *)
(***************************************************************************)
\* the worker thread; the handler threads are 1..NumHandlers
WorkerThread == 0

Lock(mutex, next)   == [op |-> "lock",   mutex |-> mutex,  next |-> next]
Unlock(mutex, next) == [op |-> "unlock", mutex |-> mutex,  next |-> next]
Wait(mutex, next)   == [op |-> "wait",   mutex |-> mutex,  next |-> next]
Goto(next)          == [op |-> "goto",   mutex |-> "none", next |-> next]

\* enqueue_for_classification taking queue_mutex inside the state_mutex scope
HandlerCode_nested_locks ==
    [label \in {"r_classified_unlock", "r_queue_unlock", "r_both_unlock"} |->
        CASE label = "r_classified_unlock" -> Goto({"r_queue_lock"})
          [] label = "r_queue_unlock" -> Unlock("queue_mutex", {"r_both_unlock"})
          [] OTHER -> Unlock("state_mutex", {"r_close"})]

\* what a handler thread does at each place of magic_create, magic_release
\* (with is_hidden, add_to_queue, enqueue_for_classification) and magic_readdir
HandlerCode_release ==
    [label \in {"r_classified_unlock", "r_queue_unlock"} |->
        CASE label = "r_classified_unlock" ->
                 Unlock("state_mutex", {"r_close", "r_queue_lock"})
          [] OTHER -> Unlock("queue_mutex", {"r_close"})]

HandlerCode ==
    HandlerCode_release @@
    [label \in {"idle", "create", "c_add_lock", "c_add_unlock", "release",
                "r_hidden_lock", "r_hidden_unlock", "r_add_lock", "r_add_unlock",
                "r_classified_lock", "r_queue_lock", "r_close",
                "d_cats_lock", "d_cats_unlock", "d_entry", "d_hidden_lock",
                "d_hidden_unlock", "d_map_lock", "d_map_unlock",
                "d_find_lock", "d_find_unlock"} |->
        CASE label = "idle" -> Goto({"create", "release", "d_cats_lock", "d_find_lock"})
          \* magic_create: open, then add_to_queue for a root file not ignored
          [] label = "create" -> Goto({"c_add_lock", "idle"})
          [] label = "c_add_lock" -> Lock("state_mutex", {"c_add_unlock"})
          [] label = "c_add_unlock" -> Unlock("state_mutex", {"idle"})
          \* magic_release: is_hidden, add_to_queue when it was false
          [] label = "release" -> Goto({"r_hidden_lock", "r_close"})
          [] label = "r_hidden_lock" -> Lock("state_mutex", {"r_hidden_unlock"})
          [] label = "r_hidden_unlock" ->
                 Unlock("state_mutex", {"r_add_lock", "r_classified_lock"})
          [] label = "r_add_lock" -> Lock("state_mutex", {"r_add_unlock"})
          [] label = "r_add_unlock" -> Unlock("state_mutex", {"r_classified_lock"})
          \* enqueue_for_classification: the two scopes, one after the other
          [] label = "r_classified_lock" -> Lock("state_mutex", {"r_classified_unlock"})
          [] label = "r_queue_lock" -> Lock("queue_mutex", {"r_queue_unlock"})
          [] label = "r_close" -> Goto({"idle"})
          \* magic_readdir("/"): the category loop, then per entry is_hidden and
          \* the file_category_map test
          [] label = "d_cats_lock" -> Lock("state_mutex", {"d_cats_unlock"})
          [] label = "d_cats_unlock" -> Unlock("state_mutex", {"d_entry"})
          [] label = "d_entry" -> Goto({"d_hidden_lock", "idle"})
          [] label = "d_hidden_lock" -> Lock("state_mutex", {"d_hidden_unlock"})
          [] label = "d_hidden_unlock" -> Unlock("state_mutex", {"d_entry", "d_map_lock"})
          [] label = "d_map_lock" -> Lock("state_mutex", {"d_map_unlock"})
          [] label = "d_map_unlock" -> Unlock("state_mutex", {"d_entry", "idle"})
          \* magic_readdir("/<category>"): categories.find
          [] label = "d_find_lock" -> Lock("state_mutex", {"d_find_unlock"})
          [] OTHER -> Unlock("state_mutex", {"idle"})]

\* worker_loop keeping queue_mutex locked across the debounce sleep
WorkerCode_sleep_locked ==
    [label \in {"w_test1", "w_sleep", "w_test2"} |->
        CASE label = "w_test1" -> Goto({"w_break", "w_sleep"})
          [] label = "w_sleep" -> Goto({"w_test2"})
          [] OTHER -> Goto({"w_break", "w_drain"})]

\* lines 112-120 of worker_loop: the first shutdown test, unlock, sleep, lock,
\* the second shutdown test
WorkerCode_sleep ==
    [label \in {"w_test1", "w_unlock", "w_sleep", "w_relock", "w_test2"} |->
        CASE label = "w_test1" -> Goto({"w_break", "w_unlock"})
          [] label = "w_unlock" -> Unlock("queue_mutex", {"w_sleep"})
          [] label = "w_sleep" -> Goto({"w_relock"})
          [] label = "w_relock" -> Lock("queue_mutex", {"w_test2"})
          [] OTHER -> Goto({"w_break", "w_drain"})]

\* what the worker thread does at each place of worker_loop,
\* classify_files_batch and update_category
WorkerCode ==
    WorkerCode_sleep @@
    [label \in {"loop", "w_lock", "w_pred", "w_wait", "w_woken", "w_break", "w_drain",
                "w_send", "w_recv", "w_parse", "w_update_lock", "w_update_unlock",
                "w_erase_lock", "w_erase_unlock", "done"} |->
        CASE label = "loop" -> Goto({"w_lock", "done"})
          [] label = "w_lock" -> Lock("queue_mutex", {"w_pred"})
          \* queue_cv.wait(lock, pred)
          [] label = "w_pred" -> Goto({"w_wait", "w_test1"})
          [] label = "w_wait" -> Wait("queue_mutex", {"w_woken"})
          [] label = "w_woken" -> Lock("queue_mutex", {"w_pred"})
          \* break: the unique_lock goes out of scope
          [] label = "w_break" -> Unlock("queue_mutex", {"done"})
          \* the drain loop, then the end of the scope
          [] label = "w_drain" -> Unlock("queue_mutex", {"w_send", "loop"})
          \* classify_files_batch: zmq_send, zmq_recv, the parse loop
          [] label = "w_send" -> Goto({"w_recv"})
          [] label = "w_recv" -> Goto({"w_parse", "w_erase_lock"})
          [] label = "w_parse" -> Goto({"w_update_lock", "w_erase_lock"})
          [] label = "w_update_lock" -> Lock("state_mutex", {"w_update_unlock"})
          [] label = "w_update_unlock" -> Unlock("state_mutex", {"w_parse"})
          \* the markers of the batch are erased
          [] label = "w_erase_lock" -> Lock("queue_mutex", {"w_erase_unlock"})
          [] label = "w_erase_unlock" -> Unlock("queue_mutex", {"loop"})
          [] OTHER -> Goto({})]

Threads == {WorkerThread} \cup Handlers

\* the instruction thread t is at
CodeAt(t) == IF t = WorkerThread THEN WorkerCode[wpc] ELSE HandlerCode[hpc[t]]

Owner(mutex) == IF mutex = "state_mutex" THEN state_mutex ELSE queue_mutex

SetOwner(mutex, t) ==
    IF mutex = "state_mutex"
    THEN state_mutex' = t /\ UNCHANGED queue_mutex
    ELSE queue_mutex' = t /\ UNCHANGED state_mutex

\* thread t goes on at one of the places in next
GoOn(t, next) ==
    \E label \in next :
        IF t = WorkerThread
        THEN wpc' = label /\ UNCHANGED hpc
        ELSE hpc' = [hpc EXCEPT ![t] = label] /\ UNCHANGED wpc

dataVars == <<backing, visibility, queueVars, running, batch, request, verdicts, rpcCount,
              emitted, stopRpcs, hpath, paths, readdirVars, fileVars>>

\* std::lock_guard / unique_lock constructor, lock(): blocks until the mutex is free
mutex_lock(t) ==
    /\ CodeAt(t).op = "lock"
    /\ Owner(CodeAt(t).mutex) = NoThread
    /\ SetOwner(CodeAt(t).mutex, t)
    /\ GoOn(t, CodeAt(t).next)
    /\ UNCHANGED dataVars

\* the end of a lock scope, unlock()
mutex_unlock(t) ==
    /\ CodeAt(t).op = "unlock"
    /\ SetOwner(CodeAt(t).mutex, NoThread)
    /\ GoOn(t, CodeAt(t).next)
    /\ UNCHANGED dataVars

\* condition_variable::wait(lock): unlocks and blocks until woken
cv_wait(t) ==
    /\ CodeAt(t).op = "wait"
    /\ SetOwner(CodeAt(t).mutex, NoThread)
    /\ GoOn(t, CodeAt(t).next)
    /\ UNCHANGED dataVars

\* code that takes and releases no mutex
no_lock_step(t) ==
    /\ CodeAt(t).op = "goto"
    /\ GoOn(t, CodeAt(t).next)
    /\ UNCHANGED <<mutexes, dataVars>>

LockInit == Init /\ DOMAIN hpc = 1..NumHandlers

LockNext ==
    \/ \E t \in Threads : mutex_lock(t)
    \/ \E t \in Threads : mutex_unlock(t)
    \/ \E t \in Threads : cv_wait(t)
    \/ \E t \in Threads : no_lock_step(t)

LockSpec == LockInit /\ [][LockNext]_vars

(***************************************************************************)
(* magic_readdir, as a function of the state it reads.                     *)
(***************************************************************************)
\* readdir("/"), part 1: the category names emitted
readdir_root_categories == DOMAIN categories

\* readdir("/") without the file_category_map test
readdir_root_files_hidden_test_only == {d_name \in DirEntries : ~is_hidden(d_name)}

\* readdir("/"), part 2: the real files emitted
readdir_root_files ==
    {d_name \in DirEntries :
        ~is_hidden(d_name) /\ d_name \notin DOMAIN file_category_map}

\* readdir("/<category>"): the filenames emitted, in order.  A path that names
\* no category falls back to the backing directory of that name, and the
\* backing store of these runs holds files only.
readdir_category(path) ==
    LET category == SubstrFrom(path, 1)
    IN  IF category \in DOMAIN categories
        THEN SelectSeq(categories[category], LAMBDA f : full_path_of(f) \in backing)
        ELSE <<>>

Count(x, s) == Cardinality({i \in DOMAIN s : s[i] = x})

Classified(f) == f \in DOMAIN file_category_map

(***************************************************************************)
(* C1.  In every reachable state and for every filename F, readdir of "/"  *)
(* lists F as a root entry if and only if F exists in the backing store,   *)
(* F is not in the Hidden set and F has no entry in file_category_map.     *)
(***************************************************************************)
C1_RootListing ==
    \A F \in Filenames :
        F \in readdir_root_files
            <=> /\ full_path_of(F) \in backing
                /\ F \notin hidden_files
                /\ ~Classified(F)

\* a file is listed at the root while another one, present in the backing
\* store, is suppressed because it is classified, and a third because hidden
C1_Witness ==
    \E F, G \in Filenames :
        /\ F \in readdir_root_files
        /\ full_path_of(G) \in backing /\ Classified(G) /\ G \notin hidden_files
        /\ G \notin readdir_root_files

(***************************************************************************)
(* C2.  For every filename F and category C, readdir of "/<C>" lists F if  *)
(* and only if C is the category recorded for F, and then exactly once (so *)
(* F is listed under at most one category and at most once).               *)
(***************************************************************************)
C2_CategoryListing ==
    \A F \in Filenames, C \in Categories :
        Count(F, readdir_category(RootPath(C)))
            = IF Classified(F) /\ file_category_map[F] = C THEN 1 ELSE 0

(***************************************************************************)
(* C3.  The set of category names readdir of "/" emits equals the set of   *)
(* values of file_category_map; a category with no file assigned to it is  *)
(* never listed at the root.                                               *)
(***************************************************************************)
C3_RootCategories ==
    readdir_root_categories = {file_category_map[f] : f \in DOMAIN file_category_map}

(***************************************************************************)
(* C4.  No filename is at once in the Hidden set and in file_category_map. *)
(***************************************************************************)
C4_ExclusiveStates ==
    \A F \in Filenames : ~(F \in hidden_files /\ Classified(F))

(***************************************************************************)
(* C5.  Every filename in the in-queue marker set is in state Hidden.      *)
(***************************************************************************)
C5_MarkedIsHidden == queued_files \subseteq hidden_files

(***************************************************************************)
(* C5, amended.  Every filename in the in-queue marker set is in the       *)
(* Hidden set or in file_category_map: it is Hidden until the worker       *)
(* applies a verdict to it, and Classified from then until its marker is   *)
(* cleared.                                                                *)
(***************************************************************************)
C5_MarkedIsHiddenOrClassified ==
    \A F \in queued_files : F \in hidden_files \/ Classified(F)

\* the worker has applied a verdict to a name of its batch and has not yet
\* cleared the marker
C5_Witness ==
    \E F \in queued_files :
        /\ F \in Range(batch)
        /\ Classified(F)
        /\ F \notin hidden_files
        /\ wpc \in {"apply", "erase"}


(***************************************************************************)
(* C6.  After release of a non-ignored file at a root path "/<name>" has   *)
(* completed, <name> is in the Hidden set or in file_category_map and      *)
(* stays there, so no later readdir of "/" lists it; the release leaves    *)
(* the backing store, which holds <root>/<name>, as it is.                 *)
(***************************************************************************)
Suppressed(f) == f \in hidden_files \/ Classified(f)

ReleasePcs == {"release_add", "enqueue_check", "enqueue_push"}

C6_ReleaseStep ==
    \A h \in Handlers :
        /\ (hpc[h] \in {"enqueue_check", "enqueue_push"} /\ hpc'[h] = "idle")
              => LET name == get_filename(hpath[h])
                 IN  /\ name \in hidden_files' \/ name \in DOMAIN file_category_map'
                     /\ name \notin readdir_root_files'
        /\ (hpc'[h] # hpc[h] /\ (hpc[h] \in ReleasePcs \/ hpc'[h] \in ReleasePcs))
              => backing' = backing
        /\ (hpc[h] = "idle" /\ hpc'[h] \in ReleasePcs)
              => get_real_path(hpath'[h]) \in backing

C6_StaysSuppressed == \A f \in Filenames : Suppressed(f) => Suppressed(f)'

C6_VanishAfterRelease ==
    /\ [](\A f \in Filenames : Suppressed(f) => f \notin readdir_root_files)
    /\ [][C6_ReleaseStep /\ C6_StaysSuppressed]_vars

\* a release has pushed a name whose backing file exists; no handler is running
C6_Witness ==
    \E f \in Range(processing_queue) :
        /\ full_path_of(f) \in backing
        /\ f \notin readdir_root_files
        /\ \A h \in Handlers : hpc[h] = "idle"

(***************************************************************************)
(* C7.  A filename equal to ".DS_Store" or starting with "._" is never in  *)
(* the Hidden set, in file_category_map, in a category list, in the FIFO,  *)
(* in a batch or in the in-queue marker set, and it is listed by readdir   *)
(* of "/" whenever it exists in the backing store.                         *)
(***************************************************************************)
IgnoredNames == {DotUnderscore, DSStore}

C7_IgnoredNeverTracked ==
    \A f \in IgnoredNames :
        /\ f \notin hidden_files
        /\ ~Classified(f)
        /\ \A c \in DOMAIN categories : f \notin Range(categories[c])
        /\ f \notin Range(processing_queue)
        /\ f \notin Range(batch)
        /\ f \notin queued_files
        /\ \A h \in Handlers : hpc[h] # "idle" => get_filename(hpath[h]) # f
        /\ full_path_of(f) \in backing => f \in readdir_root_files

\* both ignored names exist and are listed, beside a regular file that is hidden
C7_Witness ==
    /\ \A f \in IgnoredNames : full_path_of(f) \in backing /\ f \in readdir_root_files
    /\ FileA \in hidden_files
    /\ full_path_of(FileA) \in backing

(***************************************************************************)
(* C8.  A filename occupies at most one slot of the classification FIFO,   *)
(* and occurs at most once in the batch drained from it.                   *)
(***************************************************************************)
C8_OneSlot ==
    \A f \in Filenames :
        /\ Count(f, processing_queue) <= 1
        /\ Count(f, batch) <= 1

\* a further enqueue of a name is about to run while the name is in the FIFO
C8_Witness ==
    \E h \in Handlers :
        /\ hpc[h] = "enqueue_push"
        /\ get_filename(hpath[h]) \in Range(processing_queue)

(***************************************************************************)
(* C9.  The in-queue marker of a filename stays set while the name is in   *)
(* the FIFO or in the batch being processed; it is cleared only by the     *)
(* worker, after the request of the batch has returned, and then for every *)
(* name of the batch, whether verdicts arrived or not; an enqueue of a     *)
(* marked name adds nothing to the FIFO; and between the setting and the   *)
(* clearing of a marker exactly one request carrying the name is sent.     *)
(***************************************************************************)
C9_MarkerState ==
    /\ \A f \in Range(processing_queue) \cup Range(batch) : f \in queued_files
    /\ \A f \in queued_files : emitted[f] <= 1

C9_MarkerStep ==
    \A f \in Filenames :
        /\ (f \in queued_files /\ f \notin queued_files')
              => /\ wpc = "erase"
                 /\ verdicts = <<>>
                 /\ f \in Range(batch)
                 /\ emitted[f] = 1
                 /\ queued_files' \cap Range(batch) = {}
        /\ f \in queued_files
              => Count(f, processing_queue') <= Count(f, processing_queue)

C9_MarkerLifetime == []C9_MarkerState /\ [][C9_MarkerStep]_vars

\* the request carrying a name is outstanding and a release of the same name
\* has reached the push
C9_Witness ==
    \E h \in Handlers :
        /\ wpc = "recv"
        /\ hpc[h] = "enqueue_push"
        /\ get_filename(hpath[h]) \in Range(batch)
        /\ emitted[get_filename(hpath[h])] = 1

(***************************************************************************)
(* C10.  The drain moves every filename of the FIFO into one batch and     *)
(* leaves the FIFO empty; exactly one request is sent for the batch, and   *)
(* it carries exactly one backing-store path per filename of the batch.    *)
(***************************************************************************)
\* the strings between double quotes of s, from 0-based position from on
RECURSIVE QuotedStrings(_, _)
QuotedStrings(s, from) ==
    LET open == Find(s, Quote, from)
    IN  IF open = npos THEN <<>>
        ELSE LET close == Find(s, Quote, open + 1)
             IN  IF close = npos THEN <<>>
                 ELSE <<Substr(s, open + 1, close - open - 1)>>
                      \o QuotedStrings(s, close + 1)

C10_WorkerStep ==
    /\ (wpc = "sleep" /\ wpc' \notin {"sleep", "done"})
          => /\ wpc' = "send"
             /\ batch' = processing_queue
             /\ batch' # <<>>
             /\ processing_queue' = <<>>
    /\ (wpc' = "send" /\ wpc # "send") => wpc = "sleep"
    /\ (wpc = "send" /\ wpc' # "send")
          => /\ wpc' = "recv"
             /\ rpcCount' = rpcCount + 1
             /\ batch' = batch
             /\ QuotedStrings(request', 0)
                  = <<<<"f", "i", "l", "e", "s">>>>
                    \o [i \in 1..Len(batch) |-> full_path_of(batch[i])]
    /\ rpcCount' # rpcCount => wpc = "send"

C10_OneBatchOneRequest == [][C10_WorkerStep]_vars

\* one request is outstanding; it carries the two names released before the drain
C10_Witness ==
    /\ wpc = "recv"
    /\ Len(batch) = 2
    /\ processing_queue = <<>>
    /\ rpcCount = 1
    /\ Len(QuotedStrings(request, 0)) = 3

(***************************************************************************)
(* C11.  After shutdown() has set running to false and broadcast queue_cv, *)
(* the worker thread eventually leaves its loop (so that the join in       *)
(* shutdown returns), wherever the worker was when shutdown ran, given     *)
(* that the worker is scheduled and that an outstanding request returns.   *)
(***************************************************************************)
C11_WorkerExits == (~running) ~> (wpc = "done")
(***************************************************************************)
(* C12.  Once running has been set to false, at most one request returns   *)
(* before the worker exits (the one outstanding at that moment, or the one *)
(* for the batch the worker drains next), and the worker sends no request  *)
(* after one has returned, even when names were pushed on the FIFO during  *)
(* that request.                                                           *)
(***************************************************************************)
C12_SendStep ==
    (rpcCount' # rpcCount /\ ~running) => stopRpcs = 0

C12_OneRpcAfterShutdown == [](stopRpcs <= 1) /\ [][C12_SendStep]_vars

\* the worker has exited after the one request that returned under shutdown,
\* and left on the FIFO a name that was pushed during that request
C12_Witness ==
    /\ ~running
    /\ wpc = "done"
    /\ stopRpcs = 1
    /\ processing_queue # <<>>
(***************************************************************************)
(* C15.  A filename of a batch that receives no verdict (the receive       *)
(* fails, or the response has no entry for the path of that file) is left  *)
(* as it is by the batch: no category is assigned to it, its membership in *)
(* the Hidden set, in file_category_map and in the category lists does not *)
(* change, and the worker pushes nothing on the FIFO.                      *)
(***************************************************************************)
\* the response vs has an entry for the backing-store path of filename
HasEntry(vs, filename) == \E i \in DOMAIN vs : vs[i].path = full_path_of(filename)

\* the names update_category is called with when vs is the response for batch
VerdictNames(vs) ==
    LET bv == BatchVerdicts(vs, batch, 1) IN {bv[k][1] : k \in DOMAIN bv}

\* whatever response arrives for the outstanding request, a name of the batch
\* without an entry in it gets no verdict
C15_NoEntryNoVerdict ==
    wpc = "recv"
        => \A vs \in VerdictLists : \A f \in Range(batch) :
               ~HasEntry(vs, f) => f \notin VerdictNames(vs)

CategoryCounts(cats, f) == [c \in Categories |-> IF c \in DOMAIN cats THEN Count(f, cats[c]) ELSE 0]

SameVisibility(f) ==
    /\ (f \in hidden_files') = (f \in hidden_files)
    /\ (f \in DOMAIN file_category_map') = (f \in DOMAIN file_category_map)
    /\ CategoryCounts(categories', f) = CategoryCounts(categories, f)

\* a step of the worker between the return of the receive and the erase of
\* the markers changes the visibility of the name it applies a verdict to only
C15_WorkerStep ==
    (wpc \in {"recv", "apply", "erase"} /\ (wpc' # wpc \/ verdicts' # verdicts))
        => /\ processing_queue' = processing_queue
           /\ \A f \in Filenames :
                 (wpc # "apply" \/ Head(verdicts)[1] # f) => SameVisibility(f)

C15_NoVerdictNoChange == []C15_NoEntryNoVerdict /\ [][C15_WorkerStep]_vars

(***************************************************************************)
(* C16.  A successful unlink of a path removes the backing file and every  *)
(* visibility record of its filename: after it the filename is not in the  *)
(* Hidden set, in no category list and not in file_category_map.           *)
(***************************************************************************)
C16_UnlinkStep ==
    \A path \in paths :
        (/\ get_real_path(path) \in backing
         /\ backing' = backing \ {get_real_path(path)})
            => LET f == get_filename(path)
               IN  /\ f \notin hidden_files'
                   /\ f \notin DOMAIN file_category_map'
                   /\ \A c \in DOMAIN categories' : f \notin Range(categories'[c])

C16_UnlinkForgets == [][C16_UnlinkStep]_vars

(***************************************************************************)
(* C17.  When a file was created and released at the root and unlinked     *)
(* before any verdict was applied, a verdict for its filename that arrives *)
(* afterwards puts the filename in no category list, so that no category   *)
(* that contains it or was created for it appears, and the filename is     *)
(* listed neither at the root nor in any category.  (Stated for the runs   *)
(* in which every path names that one file, where only an unlink removes   *)
(* the backing file.)                                                      *)
(***************************************************************************)
C17_VerdictStep ==
    (wpc = "apply" /\ verdicts' # verdicts)
        => LET f == Head(verdicts)[1]
           IN  (/\ \A p \in paths : get_real_path(p) = full_path_of(f)
                /\ full_path_of(f) \notin backing)
                  => /\ \A c \in DOMAIN categories' : f \notin Range(categories'[c])
                     /\ readdir_root_categories' = readdir_root_categories
                     /\ f \notin readdir_root_files'
                     /\ \A c \in Categories : f \notin Range(readdir_category(RootPath(c))')

C17_NoVerdictAfterUnlink == [][C17_VerdictStep]_vars

(***************************************************************************)
(* C18.  Verdicts are sticky: once a filename has a category, a later      *)
(* verdict for it changes neither file_category_map[filename] nor the      *)
(* number of times the filename occurs in any category list.               *)
(***************************************************************************)
C18_StickyStep ==
    \A f \in Filenames :
        Classified(f)
            => /\ file_category_map'[f] = file_category_map[f]
               /\ CategoryCounts(categories', f) = CategoryCounts(categories, f)

C18_StickyVerdicts == [][C18_StickyStep]_vars

(***************************************************************************)
(* C19.  For every filename: it is inserted into the Hidden set before it  *)
(* is pushed on the FIFO (a name that is neither hidden nor classified     *)
(* becomes hidden first, and only a name that has been hidden is pushed),  *)
(* it enters a batch only from the FIFO, and a category is assigned to it  *)
(* only by the worker while it is in the batch it was drained into.        *)
(***************************************************************************)
C19_Step ==
    \A f \in Filenames :
        /\ (~Suppressed(f) /\ Suppressed(f)') => (f \in hidden_files' /\ ~Classified(f)')
        /\ Count(f, processing_queue') > Count(f, processing_queue) => Suppressed(f)
        /\ (f \in Range(batch') /\ f \notin Range(batch))
              => (f \in Range(processing_queue) /\ f \notin Range(processing_queue'))
        /\ (\/ CategoryCounts(categories', f) # CategoryCounts(categories, f)
            \/ Classified(f)' /\ ~Classified(f)
            \/ Classified(f) /\ file_category_map'[f] # file_category_map[f])
              => (wpc = "apply" /\ f \in Range(batch) /\ Suppressed(f))

C19_Ordering == [][C19_Step]_vars

\* a file went all the way: hidden, pushed, drained, classified, its marker
\* cleared, and it is listed under its category
C19_Witness ==
    \E f \in Filenames :
        /\ Classified(f)
        /\ f \notin hidden_files
        /\ f \notin queued_files
        /\ Count(f, readdir_category(RootPath(file_category_map[f]))) = 1

(***************************************************************************)
(* C20.  One readdir of "/" reflects one snapshot of the visibility state  *)
(* also when a verdict is applied while it runs; in particular it never    *)
(* omits a file because the file is classified while the listing it        *)
(* returns lacks the category of that file.                                *)
(***************************************************************************)
C20_MapTestStep ==
    (dpc = "map_test" /\ dpc' # "map_test" /\ dname \in DOMAIN file_category_map)
        => file_category_map[dname] \in dcats

C20_ConsistentSnapshot == [][C20_MapTestStep]_vars
(***************************************************************************)
(* C13.  No thread, handler or worker, owns state_mutex and queue_mutex at *)
(* the same time; and a thread that waits for a mutex owns none, so the    *)
(* threads cannot deadlock on the two mutexes.                             *)
(***************************************************************************)
OwnedBy(t) == {mutex \in {"state_mutex", "queue_mutex"} : Owner(mutex) = t}

C13_NeverBothMutexes ==
    \A t \in Threads :
        /\ Cardinality(OwnedBy(t)) <= 1
        /\ CodeAt(t).op = "lock" => OwnedBy(t) = {}

\* a handler inside the queue_mutex scope of enqueue_for_classification waits
\* for nobody, while the worker is inside update_category and the other
\* handler waits for state_mutex
C13_Witness ==
    /\ \E h \in Handlers : hpc[h] = "r_queue_unlock" /\ OwnedBy(h) = {"queue_mutex"}
    /\ wpc = "w_update_unlock" /\ OwnedBy(WorkerThread) = {"state_mutex"}
    /\ \E h \in Handlers : CodeAt(h).op = "lock" /\ CodeAt(h).mutex = "state_mutex"

(***************************************************************************)
(* C14.  While the worker is in its debounce sleep or between the send of  *)
(* a request and the return of the receive, it owns neither queue_mutex    *)
(* nor state_mutex, so no handler step waits for the classifier.           *)
(***************************************************************************)
C14_WorkerLockFree ==
    wpc \in {"w_sleep", "w_send", "w_recv"}
        => /\ OwnedBy(WorkerThread) = {}
           /\ \A h \in Handlers :
                 CodeAt(h).op = "lock" => Owner(CodeAt(h).mutex) # WorkerThread

\* the worker waits for the response while one handler is inside the
\* queue_mutex scope of enqueue and the other inside is_hidden
C14_Witness ==
    /\ wpc = "w_recv"
    /\ \E h \in Handlers : hpc[h] = "r_queue_unlock" /\ queue_mutex = h
    /\ \E h \in Handlers : hpc[h] \in {"r_hidden_unlock", "d_hidden_unlock"} /\ state_mutex = h

(***************************************************************************)
(* C26.  For every value zmq_recv can return as the byte count of the      *)
(* response, a response of BufferSize bytes or more included, the index at *)
(* which classify_files_batch stores the terminating NUL is inside the     *)
(* buffer: it is in 0..BufferSize-1.                                       *)
(***************************************************************************)
\* char buffer[8192]
BufferSize == 8192

\* zmq_recv(socket, buffer, 8192, 0) returns -1 on failure and otherwise the
\* length of the message, also when the message was truncated to the buffer:
\* the lengths of the replies of the runs, and the lengths around the buffer's
RecvReturns ==
    {-1} \cup {Len(ClassifierReply(vs)) : vs \in VerdictLists}
         \cup {BufferSize - 1, BufferSize, BufferSize + 1}

\* "if (bytes > 0) buffer[bytes] = '\0'": the indices written for a return value
TerminatorIndex(bytes) == IF bytes > 0 THEN {bytes} ELSE {}

C26_TerminatorInBuffer ==
    wpc = "recv"
        => \A bytes \in RecvReturns :
               \A i \in TerminatorIndex(bytes) : i \in 0..(BufferSize - 1)

(***************************************************************************)
(* C24.  Whenever queue_mutex is free (between two critical sections), the *)
(* set of in-queue markers is the set of the names in the FIFO together    *)
(* with the names of the batch the worker has drained and not yet cleared; *)
(* the FIFO and that batch have no name in common and neither holds a name *)
(* twice.                                                                  *)
(***************************************************************************)
NoDuplicates(s) == \A i, j \in DOMAIN s : s[i] = s[j] => i = j

C24_MarkersAreQueueAndBatch ==
    /\ queued_files = Range(processing_queue) \cup Range(batch)
    /\ Range(processing_queue) \cap Range(batch) = {}
    /\ NoDuplicates(processing_queue)
    /\ NoDuplicates(batch)

\* one name waits in the FIFO while another is in the batch of an outstanding
\* request
C24_Witness ==
    /\ processing_queue # <<>>
    /\ batch # <<>>
    /\ wpc = "recv"
    /\ Cardinality(queued_files) = 2

(***************************************************************************)
(* C23.  A file created at the root under a name that is not ignored       *)
(* vanishes at once: from the moment magic_create has made the file exist  *)
(* in the backing store, no readdir of "/" lists its filename, neither one *)
(* that runs wholly at that moment nor one that is running beside the      *)
(* create.                                                                 *)
(***************************************************************************)
\* a create of filename at the root has opened the file and has not returned
CreateInProgress(filename) ==
    \E h \in Handlers : hpc[h] = "create_add" /\ get_filename(hpath[h]) = filename

\* a readdir that runs now, from its first lock to its return
C23_NotListedNow ==
    \A f \in Filenames : CreateInProgress(f) => f \notin readdir_root_files

\* the readdir running beside the create passes no such name to the filler
C23_FillerStep ==
    \A f \in Filenames :
        (f \in dlisted' /\ f \notin dlisted) => ~CreateInProgress(f)

C23_VanishAtCreate == []C23_NotListedNow /\ [][C23_FillerStep]_vars

(***************************************************************************)
(* C25.  While shutdown has not been requested, every filename pushed on   *)
(* the FIFO is eventually in a batch whose request has been sent, and its  *)
(* in-queue marker is eventually cleared, when the threads are scheduled   *)
(* fairly and every request returns.                                       *)
(***************************************************************************)
InFifo(f) == running /\ f \in Range(processing_queue)

Sent(f) == f \in Range(batch) /\ wpc \in {"recv", "apply", "erase"}

\* the filenames of the paths of LiveInit
LiveNames == {FileA}

C25_EventuallyClassified ==
    \A f \in LiveNames :
        /\ InFifo(f) ~> (~running \/ Sent(f))
        /\ InFifo(f) ~> (~running \/ f \notin queued_files)

\* two pushes have been served and nothing is left behind
C25_Witness ==
    /\ running
    /\ rpcCount = MaxRpc
    /\ wpc = "blocked"
    /\ queued_files = {}

(***************************************************************************)
(* C21.  The bytes written through a virtual path of a file are the bytes  *)
(* read back through every virtual path of the same filename: "/<name>"    *)
(* and "/<category>/<name>", for any category, name the same file of the   *)
(* backing store, so that a read at the offset of a write returns the byte *)
(* written, whatever the visibility state of the file is.                  *)
(***************************************************************************)
VirtualPaths(name) == {RootPath(name)} \cup {CategoryPath(c, name) : c \in Categories}

\* the handle opened through path is on the file its name names now
OnNamedFile(path) ==
    /\ path \in DOMAIN fh
    /\ LET real_path == get_real_path(path)
       IN  real_path \in backing /\ fh[path] = inode[real_path]

\* every virtual path of a name resolves to <root>/<name>
SameRealPath ==
    \A name \in Filenames : \A p \in VirtualPaths(name) : get_real_path(p) = full_path_of(name)

\* at every moment the virtual paths of a name resolve to one file, and a handle
\* opened through one of them reads the bytes that are read through the root path
C21_SameFile ==
    /\ SameRealPath
    /\ \A p \in DOMAIN fh : \A offset \in 0..MaxOffset :
          OnNamedFile(p)
              => magic_read(p, offset, TRUE)
                     = magic_read(RootPath(get_filename(p)), offset, FALSE)

\* the file a write through p goes to
WrittenFile(p, with_fi) == IF with_fi THEN fh[p] ELSE inode[get_real_path(p)]

\* a step that writes byte at offset through p leaves the file in which a read
\* at that offset returns that byte
C21_WriteStep ==
    (content' # content /\ fh' = fh /\ inode' = inode) =>
    \A p \in paths : \A offset \in 0..MaxOffset : \A byte \in 1..MaxByte : \A with_fi \in BOOLEAN :
        (/\ IF with_fi THEN OnNamedFile(p) ELSE get_real_path(p) \in backing
         /\ content' = [content EXCEPT ![WrittenFile(p, with_fi)] = pwrite(@, offset, byte)])
            => /\ pread(content'[inode[full_path_of(get_filename(p))]], offset) = <<byte>>
               /\ \A q \in DOMAIN fh :
                     fh[q] = WrittenFile(p, with_fi)
                         => pread(content'[fh[q]], offset) = <<byte>>

C21_ReadAfterWrite == []C21_SameFile /\ [][C21_WriteStep]_vars

\* a byte written at offset 1 is read through a category path after the file
\* has been classified
C21_Witness ==
    /\ Classified(FileA)
    /\ FileA \notin hidden_files
    /\ magic_read(CategoryPath(CatP, FileA), 1, FALSE) = <<1>>
    /\ magic_read(RootPath(FileA), 0, FALSE) = <<0>>

(***************************************************************************)
(* C22.  A rename called with flags that are not zero returns -EINVAL and  *)
(* changes nothing: the backing store with its files, the Hidden set, the  *)
(* category maps, the FIFO and the in-queue markers are as before.         *)
(***************************************************************************)
C22_RenameStep ==
    (rename_ret' # rename_ret /\ rename_ret'.flags # 0)
        => /\ rename_ret'.ret = "-EINVAL"
           /\ UNCHANGED <<backing, inode, content, hidden_files, categories,
                          file_category_map, processing_queue, queued_files>>

C22_FlagsRejected == [][C22_RenameStep]_vars

\* a rename with flags was rejected although the file it names exists, the
\* target does not, and the name is waiting in the FIFO
C22_Witness ==
    /\ rename_ret # NoCall
    /\ rename_ret.flags # 0
    /\ full_path_of(FileA) \in backing
    /\ full_path_of(FileAB) \notin backing
    /\ FileA \in Range(processing_queue)

====
